---- MODULE Spec2Model ----
(***************************************************************************)
(* A model of package timeutil (bww/go-timeutil, v1): ParseDuration,       *)
(* FormatDuration, FormatSimplifiedDuration, the Duration JSON methods and *)
(* ParseExprRef.                                                           *)
(*                                                                         *)
(* Go's uint64, int64 and float64 do not fit TLC's 32-bit integers, so a   *)
(* natural number is a little-endian sequence of base-1000 limbs without   *)
(* a leading zero limb (zero is << >>), an int64 is a sign and a           *)
(* magnitude, and a float64 is a 53-bit mantissa and a binary exponent     *)
(* with round-to-nearest-even.  A Go string is the sequence of its bytes,  *)
(* each byte a one-character string ("0xC2" and the like for the bytes of  *)
(* a multi-byte rune).                                                     *)
(***************************************************************************)
EXTENDS Integers, Sequences, FiniteSets, TLC

\* The limb base of the natural-number representation.
Base == 1000

(***************************************************************************)
(* Natural numbers of any size: the arithmetic Go performs on uint64       *)
(* before the width is applied.                                            *)
(***************************************************************************)
RECURSIVE Norm(_)
Norm(a) == IF a = << >> THEN << >>
           ELSE IF a[Len(a)] = 0 THEN Norm(SubSeq(a, 1, Len(a) - 1))
           ELSE a

\* A small non-negative integer (below 2^31) as a natural number.
RECURSIVE Nat2Big(_)
Nat2Big(n) == IF n = 0 THEN << >> ELSE <<n % Base>> \o Nat2Big(n \div Base)

Limb(a, i) == IF i <= Len(a) THEN a[i] ELSE 0

MaxOf(x, y) == IF x >= y THEN x ELSE y
MinOf(x, y) == IF x <= y THEN x ELSE y

\* -1, 0, 1 as a < b, a = b, a > b.
RECURSIVE CmpFrom(_, _, _)
CmpFrom(a, b, i) ==
    IF i = 0 THEN 0
    ELSE IF a[i] < b[i] THEN -1
    ELSE IF a[i] > b[i] THEN 1
    ELSE CmpFrom(a, b, i - 1)

Cmp(a, b) == IF Len(a) < Len(b) THEN -1
             ELSE IF Len(a) > Len(b) THEN 1
             ELSE CmpFrom(a, b, Len(a))

Gt(a, b) == Cmp(a, b) = 1
Lt(a, b) == Cmp(a, b) = -1
Ge(a, b) == Cmp(a, b) >= 0
Le(a, b) == Cmp(a, b) <= 0

RECURSIVE AddFrom(_, _, _, _)
AddFrom(a, b, i, carry) ==
    IF i > Len(a) /\ i > Len(b)
    THEN (IF carry = 0 THEN << >> ELSE <<carry>>)
    ELSE LET t == Limb(a, i) + Limb(b, i) + carry
         IN  <<t % Base>> \o AddFrom(a, b, i + 1, t \div Base)

Add(a, b) == AddFrom(a, b, 1, 0)

\* a - b for a >= b.
RECURSIVE SubFrom(_, _, _, _)
SubFrom(a, b, i, borrow) ==
    IF i > Len(a) THEN << >>
    ELSE LET t == a[i] - Limb(b, i) - borrow
         IN  IF t < 0 THEN <<t + Base>> \o SubFrom(a, b, i + 1, 1)
             ELSE <<t>> \o SubFrom(a, b, i + 1, 0)

Sub(a, b) == Norm(SubFrom(a, b, 1, 0))

\* a * k for a small k (k * Base below 2^31).
RECURSIVE MulSmallFrom(_, _, _, _)
MulSmallFrom(a, k, i, carry) ==
    IF i > Len(a) THEN Nat2Big(carry)
    ELSE LET t == a[i] * k + carry
         IN  <<t % Base>> \o MulSmallFrom(a, k, i + 1, t \div Base)

MulSmall(a, k) == Norm(MulSmallFrom(a, k, 1, 0))

\* a shifted up by n limbs: a * Base^n.
RECURSIVE ShiftLimbs(_, _)
ShiftLimbs(a, n) == IF a = << >> \/ n = 0 THEN a ELSE <<0>> \o ShiftLimbs(a, n - 1)

RECURSIVE MulFrom(_, _, _)
MulFrom(a, b, i) ==
    IF i > Len(b) THEN << >>
    ELSE Add(ShiftLimbs(MulSmall(a, b[i]), i - 1), MulFrom(a, b, i + 1))

Mul(a, b) == MulFrom(a, b, 1)

\* <<a div k, a mod k>> for a small k, from the top limb down.
RECURSIVE DivModSmallFrom(_, _, _, _)
DivModSmallFrom(a, k, i, rem) ==
    IF i = 0 THEN << << >>, rem >>
    ELSE LET t    == rem * Base + a[i]
             rest == DivModSmallFrom(a, k, i - 1, t % k)
         IN  << rest[1] \o <<t \div k>>, rest[2] >>

DivSmall(a, k) == Norm(DivModSmallFrom(a, k, Len(a), 0)[1])
ModSmall(a, k) == DivModSmallFrom(a, k, Len(a), 0)[2]

\* 2^n and 10^n, split in halves so that the recursion stays shallow.
RECURSIVE Pow2(_)
Pow2(n) == IF n <= 30 THEN Nat2Big(2 ^ n)
           ELSE Mul(Pow2(n \div 2), Pow2(n - (n \div 2)))

RECURSIVE Pow10(_)
Pow10(n) == IF n <= 9 THEN Nat2Big(10 ^ n)
            ELSE Mul(Pow10(n \div 2), Pow10(n - (n \div 2)))

\* The limbs of a above limb j as one integer (at most three limbs).
TopLimbs(a, j) == Limb(a, j + 1) + Base * Limb(a, j + 2) + Base * Base * Limb(a, j + 3)

\* The largest q in lo .. hi - 1 with q * b <= r, given lo * b <= r < hi * b.
RECURSIVE QuotLimb(_, _, _, _)
QuotLimb(r, b, lo, hi) ==
    IF hi - lo = 1 THEN lo
    ELSE LET mid == (lo + hi) \div 2
         IN  IF Le(MulSmall(b, mid), r) THEN QuotLimb(r, b, mid, hi)
             ELSE QuotLimb(r, b, lo, mid)

\* The limb of the quotient of r by b, for b <= r < Base * b: the search
\* starts from the bounds the limbs of r and b above limb j give.
EstLimb(r, b, j) ==
    QuotLimb(r, b, TopLimbs(r, j) \div (TopLimbs(b, j) + 1),
             MinOf(((TopLimbs(r, j) + 1) \div TopLimbs(b, j)) + 1, Base))

\* The limb q put above the quotient of the limbs below it.
PutLimb(rest, q) == << rest[1] \o <<q>>, rest[2] >>

\* Long division from the top limb down; rem is the remainder carried in.
RECURSIVE DivModFrom(_, _, _, _)
\* The step of the division at limb i, given the limb q of the quotient.
DivModStep(a, b, i, r, q) == PutLimb(DivModFrom(a, b, i - 1, Sub(r, MulSmall(b, q))), q)

\* The step of the division at limb i, given the running remainder r.
DivModWith(a, b, i, r) ==
    IF Lt(r, b) THEN PutLimb(DivModFrom(a, b, i - 1, r), 0)
    ELSE DivModStep(a, b, i, r, EstLimb(r, b, MaxOf(Len(b) - 2, 0)))

DivModFrom(a, b, i, rem) ==
    IF i = 0 THEN << << >>, rem >>
    ELSE DivModWith(a, b, i, Norm(<<a[i]>> \o rem))

\* A quotient and remainder, the quotient without leading zero limbs.
NormQuot(qr) == << Norm(qr[1]), qr[2] >>

\* <<a div b, a mod b>> for b > 0.
DivMod(a, b) == NormQuot(DivModFrom(a, b, Len(a), << >>))

Div(a, b) == DivMod(a, b)[1]

TwoTo63 == Pow2(63)
TwoTo64 == Pow2(64)

\* A natural number reduced to the width of a uint64: a mod 2^64.
RECURSIVE Wrap64(_)
Wrap64(a) == IF Ge(a, TwoTo64) THEN Wrap64(Sub(a, TwoTo64)) ELSE a


(***************************************************************************)
(* float64: the value m * 2^e with 2^52 <= m < 2^53, or zero (m = << >>).  *)
(* Every operation rounds to nearest, ties to even, as IEEE 754 binary64   *)
(* does.  The exponents met here are far from the subnormal and the        *)
(* infinite range, so neither is represented.                              *)
(***************************************************************************)
TwoTo52 == Pow2(52)
TwoTo53 == Pow2(53)

\* The number of bits of a: the n in lo .. hi with 2^(n-1) <= a < 2^n.
RECURSIVE BitLenIn(_, _, _)
BitLenIn(a, lo, hi) ==
    IF lo = hi THEN lo
    ELSE LET mid == (lo + hi) \div 2
         IN  IF Lt(a, Pow2(mid)) THEN BitLenIn(a, lo, mid)
             ELSE BitLenIn(a, mid + 1, hi)

BitLen(a) == IF a = << >> THEN 0 ELSE BitLenIn(a, 1, 10 * Len(a))

\* <<floor(n * 2^s / d), remainder, divisor>>.
ScaledBy(num, den) == DivMod(num, den) \o <<den>>

Scaled(n, d, s) ==
    IF s >= 0 THEN ScaledBy(Mul(n, Pow2(s)), d) ELSE ScaledBy(n, Mul(d, Pow2(-s)))

\* <<s, q, r, den>> with q = floor(n * 2^s / d) of 53 bits, given the
\* quotient qr1 at the shift s1, which has 52 or 53 bits.
ScaledTo53(n, d, s1, qr1) ==
    IF Lt(qr1[1], TwoTo52) THEN <<s1 + 1>> \o Scaled(n, d, s1 + 1) ELSE <<s1>> \o qr1

ScaledAt(n, d, s1) == ScaledTo53(n, d, s1, Scaled(n, d, s1))

\* q rounded to nearest, ties to even; c compares twice the remainder with
\* the divisor.
RoundHalfEven(q, c) ==
    IF c = 1 \/ (c = 0 /\ ModSmall(q, 2) = 1) THEN Add(q, <<1>>) ELSE q

\* The float64 of mantissa m and exponent e, m = 2^53 brought back to 53 bits.
Pack(m, e) == IF m = TwoTo53 THEN [m |-> TwoTo52, e |-> e + 1] ELSE [m |-> m, e |-> e]

RoundPack(e0, sq) ==
    Pack(RoundHalfEven(sq[2], Cmp(MulSmall(sq[3], 2), sq[4])), e0 - sq[1])

\* The float64 nearest to (n / d) * 2^e0, for n > 0 and d > 0.
RoundRat(n, d, e0) == RoundPack(e0, ScaledAt(n, d, 52 - (BitLen(n) - BitLen(d))))

F64Zero == [m |-> << >>, e |-> 0]

\* float64(x) for a uint64 x.
F64FromUint64(x) == IF x = << >> THEN F64Zero ELSE RoundRat(x, <<1>>, 0)

F64Mul(x, y) ==
    IF x.m = << >> \/ y.m = << >> THEN F64Zero
    ELSE RoundRat(Mul(x.m, y.m), <<1>>, x.e + y.e)

\* x / y for y # 0.
F64Div(x, y) ==
    IF x.m = << >> THEN F64Zero ELSE RoundRat(x.m, y.m, x.e - y.e)

\* uint64(x): the fraction is discarded.
F64ToUint64(x) ==
    IF x.m = << >> THEN << >>
    ELSE IF x.e >= 0 THEN Wrap64(Mul(x.m, Pow2(x.e)))
    ELSE Div(x.m, Pow2(-x.e))

(***************************************************************************)
(* int64 (time.Duration): a sign and a magnitude of at most 2^63; zero is  *)
(* never negative.                                                         *)
(***************************************************************************)
I64(neg, mag) == [neg |-> neg /\ mag # << >>, mag |-> mag]

I64Zero == I64(FALSE, << >>)

\* time.Duration(d) for a uint64 d: the same 64 bits read as two's complement.
I64FromUint64(d) == IF Lt(d, TwoTo63) THEN I64(FALSE, d) ELSE I64(TRUE, Sub(TwoTo64, d))

\* -x in int64: the most negative value is its own negation.
I64Neg(x) == IF x.neg /\ x.mag = TwoTo63 THEN x ELSE I64(~x.neg, x.mag)

\* x / y and x % y for y > 0: Go truncates the quotient toward zero and
\* gives the remainder the sign of the dividend.
I64Quo(x, y) == I64(x.neg, DivMod(x.mag, y)[1])
I64Rem(x, y) == I64(x.neg, DivMod(x.mag, y)[2])

\* x - y for x and y of the same sign with |y| <= |x|.
I64SubRem(x, y) == I64(x.neg, Sub(x.mag, y.mag))

\* x > y.
I64Gt(x, y) ==
    IF x.neg # y.neg THEN y.neg
    ELSE IF x.neg THEN Lt(x.mag, y.mag)
    ELSE Gt(x.mag, y.mag)

(***************************************************************************)
(* Bytes and decimal text.                                                 *)
(***************************************************************************)
DigitChars == <<"0", "1", "2", "3", "4", "5", "6", "7", "8", "9">>

IsDigit(c) == \E n \in 1..10 : DigitChars[n] = c

\* uint64(c) - '0' for a digit c.
DigitVal(c) == (CHOOSE n \in 1..10 : DigitChars[n] = c) - 1

DigitChar(n) == DigitChars[n + 1]

\* The three decimal digits of a limb.
LimbDigits(n) == <<DigitChar(n \div 100), DigitChar((n \div 10) % 10), DigitChar(n % 10)>>

RECURSIVE StripZeros(_)
StripZeros(s) == IF Len(s) > 1 /\ s[1] = "0" THEN StripZeros(Tail(s)) ELSE s

RECURSIVE LimbsDigits(_, _)
LimbsDigits(a, i) == IF i = 0 THEN << >> ELSE LimbDigits(a[i]) \o LimbsDigits(a, i - 1)

\* fmt.Sprintf("%d", x) for an unsigned magnitude.
NatString(a) == IF a = << >> THEN <<"0">> ELSE StripZeros(LimbsDigits(a, Len(a)))

\* fmt.Sprintf("%d", x) for an int64.
I64String(x) == (IF x.neg THEN <<"-">> ELSE << >>) \o NatString(x.mag)

Suffix(s, i) == SubSeq(s, i, Len(s))

(***************************************************************************)
(* The constants of package time.                                          *)
(***************************************************************************)
Nanosecond  == <<1>>
Microsecond == MulSmall(Nanosecond, 1000)
Millisecond == MulSmall(Microsecond, 1000)
Second      == MulSmall(Millisecond, 1000)
Minute      == MulSmall(Second, 60)
Hour        == MulSmall(Minute, 60)
day         == MulSmall(Hour, 24)

Mu    == <<"0xC2", "0xB5">>   \* U+00B5, micro sign, in UTF-8
GrkMu == <<"0xCE", "0xBC">>   \* U+03BC, Greek small letter mu, in UTF-8

\* The unit table without its "\u00b5s" entry.
unitMapNoMicroSign ==
    ( <<"n", "s">>       :> Nanosecond )  @@
    ( <<"u", "s">>       :> Microsecond ) @@
    ( (GrkMu \o <<"s">>) :> Microsecond ) @@
    ( <<"m", "s">>       :> Millisecond ) @@
    ( <<"s">>            :> Second )      @@
    ( <<"m">>            :> Minute )      @@
    ( <<"h">>            :> Hour )        @@
    ( <<"d">>            :> day )         @@
    ( <<"w">>            :> MulSmall(day, 7) )

unitMap ==
    ( <<"n", "s">>       :> Nanosecond )  @@
    ( <<"u", "s">>       :> Microsecond ) @@
    ( (Mu \o <<"s">>)    :> Microsecond ) @@
    ( (GrkMu \o <<"s">>) :> Microsecond ) @@
    ( <<"m", "s">>       :> Millisecond ) @@
    ( <<"s">>            :> Second )      @@
    ( <<"m">>            :> Minute )      @@
    ( <<"h">>            :> Hour )        @@
    ( <<"d">>            :> day )         @@
    ( <<"w">>            :> MulSmall(day, 7) )

(***************************************************************************)
(* leadingInt and leadingFraction.                                         *)
(***************************************************************************)
\* return 0, "", errLeadingInt
errLeadingInt == [x |-> << >>, rem |-> << >>, err |-> TRUE]

\* The loop of leadingInt from byte i on, with x accumulated so far.
RECURSIVE leadingIntFrom(_, _, _)
\* The end of an iteration, x being x*10 + uint64(c) - '0'.
leadingIntNext(s, i, x) ==
    IF Gt(x, TwoTo63) THEN errLeadingInt ELSE leadingIntFrom(s, i + 1, x)

leadingIntFrom(s, i, x) ==
    IF i > Len(s) \/ ~IsDigit(s[i])
    THEN [x |-> x, rem |-> Suffix(s, i), err |-> FALSE]
    ELSE IF Gt(x, DivSmall(TwoTo63, 10)) THEN errLeadingInt
    ELSE leadingIntNext(s, i, Wrap64(Add(MulSmall(x, 10), Nat2Big(DigitVal(s[i])))))

leadingInt(s) == leadingIntFrom(s, 1, << >>)

F64One == F64FromUint64(<<1>>)
F64Ten == F64FromUint64(<<10>>)

\* The end of an iteration of leadingFraction, y being x*10 + uint64(c) - '0'.
leadingFractionNext(st, y) ==
    IF Gt(y, TwoTo63) THEN [st EXCEPT !.overflow = TRUE]
    ELSE [x |-> y, scale |-> F64Mul(st.scale, F64Ten), overflow |-> FALSE]

\* One iteration of the loop of leadingFraction on the digit c, past its
\* "if overflow" test; st holds the loop's variables x, scale and overflow.
leadingFractionStep(st, c) ==
    IF Gt(st.x, DivSmall(Sub(TwoTo63, <<1>>), 10))
    THEN [st EXCEPT !.overflow = TRUE]
    ELSE leadingFractionNext(st, Wrap64(Add(MulSmall(st.x, 10), Nat2Big(DigitVal(c)))))

\* The loop of leadingFraction from byte i on.
RECURSIVE leadingFractionFrom(_, _, _)
leadingFractionFrom(s, i, st) ==
    IF i > Len(s) \/ ~IsDigit(s[i])
    THEN [x |-> st.x, scale |-> st.scale, rem |-> Suffix(s, i)]
    ELSE IF st.overflow
    THEN leadingFractionFrom(s, i + 1, st)
    ELSE leadingFractionFrom(s, i + 1, leadingFractionStep(st, s[i]))

leadingFraction(s) ==
    leadingFractionFrom(s, 1, [x |-> << >>, scale |-> F64One, overflow |-> FALSE])

(***************************************************************************)
(* ParseDuration.  A result is the returned duration and the error; the    *)
(* error is "nil" or the fixed text of the message before the quoted       *)
(* input.                                                                  *)
(***************************************************************************)
ErrInvalid     == "time: invalid duration"
ErrMissingUnit == "time: missing unit in duration"
ErrUnknownUnit == "time: unknown unit"

Fail(e)  == [d |-> I64Zero, err |-> e]
Ok(d)    == [d |-> d, err |-> "nil"]

\* The unit scan stopping at a digit only, not at a '.'.
UnitLenNoDot(s) ==
    IF \E k \in 1..Len(s) : IsDigit(s[k])
    THEN (CHOOSE k \in 1..Len(s) :
              /\ IsDigit(s[k])
              /\ \A l \in 1..(k - 1) : ~IsDigit(s[l])) - 1
    ELSE Len(s)

\* The length of the unit at the head of s: the bytes before the first '.'
\* or digit.
UnitLen(s) ==
    IF \E k \in 1..Len(s) : s[k] = "." \/ IsDigit(s[k])
    THEN (CHOOSE k \in 1..Len(s) :
              /\ s[k] = "." \/ IsDigit(s[k])
              /\ \A l \in 1..(k - 1) : ~(s[l] = "." \/ IsDigit(s[l]))) - 1
    ELSE Len(s)

\* v += f * unit, the division by scale left out.
AddFractionUnscaled(v, f, unit, scale) == Wrap64(Add(v, Mul(f, unit)))

\* v += uint64(float64(f) * (float64(unit) / scale))
AddFraction(v, f, unit, scale) ==
    Wrap64(Add(v, F64ToUint64(F64Mul(F64FromUint64(f),
                                     F64Div(F64FromUint64(unit), scale)))))

\* The loop "for s != ''" of ParseDuration, with d accumulated so far; the
\* result is the error, or d after the last token.  The steps of one
\* iteration follow, last first.
RECURSIVE ParseTokens(_, _)
Invalid == [d |-> << >>, err |-> ErrInvalid]

\* d after "d += v": the test of d and the next iteration on rest.
TokenNext(d, rest) == IF Gt(d, TwoTo63) THEN Invalid ELSE ParseTokens(rest, d)

\* v with its fraction added, frac telling whether there was one ("f > 0").
TokenSum(d, frac, v, rest) ==
    IF frac /\ Gt(v, TwoTo63) THEN Invalid ELSE TokenNext(Wrap64(Add(d, v)), rest)

\* The unit found: the overflow test of v, "v *= unit" and the fraction.
TokenValue(d, v, lf, unit, rest) ==
    IF Gt(v, Div(TwoTo63, unit)) THEN Invalid
    ELSE TokenSum(d, lf.x # << >>,
                  IF lf.x # << >>
                  THEN AddFraction(Wrap64(Mul(v, unit)), lf.x, unit, lf.scale)
                  ELSE Wrap64(Mul(v, unit)),
                  rest)

\* The unit of i bytes at the head of what follows the number.
TokenUnit(d, v, lf, i) ==
    IF i = 0 THEN [d |-> << >>, err |-> ErrMissingUnit]
    ELSE IF SubSeq(lf.rem, 1, i) \notin DOMAIN unitMap
    THEN [d |-> << >>, err |-> ErrUnknownUnit]
    ELSE TokenValue(d, v, lf, unitMap[SubSeq(lf.rem, 1, i)], Suffix(lf.rem, i + 1))

\* The number read: pre and lf.post tell whether digits were consumed
\* before and after the '.'.
TokenFraction(d, v, pre, lf) ==
    IF ~pre /\ ~lf.post THEN Invalid ELSE TokenUnit(d, v, lf, UnitLen(lf.rem))

\* What leadingFraction returned on s, and whether it consumed anything.
FractionRead(s, lf) ==
    [x |-> lf.x, scale |-> lf.scale, rem |-> lf.rem, post |-> Len(s) # Len(lf.rem)]

\* "Consume (\.[0-9]*)?" on s.
Fraction(s) ==
    IF s # << >> /\ s[1] = "." THEN FractionRead(Tail(s), leadingFraction(Tail(s)))
    ELSE [x |-> << >>, scale |-> F64One, rem |-> s, post |-> FALSE]

\* What leadingInt returned on s.
TokenInt(s, d, li) ==
    IF li.err THEN Invalid
    ELSE TokenFraction(d, li.x, Len(s) # Len(li.rem), Fraction(li.rem))

ParseTokens(s, d) ==
    IF s = << >> THEN [d |-> d, err |-> "nil"]
    ELSE IF ~(s[1] = "." \/ IsDigit(s[1])) THEN Invalid
    ELSE TokenInt(s, d, leadingInt(s))

\* The bound 1<<63 in place of 1<<63-1.
MaxInt64Off == TwoTo63

\* 1<<63 - 1, the bound of the final test of ParseDuration.
MaxInt64 == Sub(TwoTo63, <<1>>)

\* The returns after the loop, r being the loop's error or its d.
ParseResult(neg, r) ==
    IF r.err # "nil" THEN Fail(r.err)
    ELSE IF neg THEN Ok(I64Neg(I64FromUint64(r.d)))
    ELSE IF Gt(r.d, MaxInt64) THEN Fail(ErrInvalid)
    ELSE Ok(I64FromUint64(r.d))

\* ParseDuration past "Consume [-+]?", s being what follows the sign.
ParseSigned(neg, s) ==
    IF s = <<"0">> THEN Ok(I64Zero)
    ELSE IF s = << >> THEN Fail(ErrInvalid)
    ELSE ParseResult(neg, ParseTokens(s, << >>))

ParseDuration(orig) ==
    IF orig # << >> /\ (orig[1] = "-" \/ orig[1] = "+")
    THEN ParseSigned(orig[1] = "-", Tail(orig))
    ELSE ParseSigned(FALSE, orig)

(***************************************************************************)
(* FormatDuration and FormatSimplifiedDuration.                            *)
(***************************************************************************)
\* fmt.Sprintf("%d<unit>", v)
Sprintd(v, unit) == I64String(v) \o unit

\* if v != 0 { f = fmt.Sprintf("%d<unit>", v) + f }
Prepend(v, unit, f) == IF v # I64Zero THEN Sprintd(v, unit) \o f ELSE f

\* v = d % n; the field v written before f; d /= n.  st is d and f.
Field(st, n, unit) ==
    [d |-> I64Quo(st.d, Nat2Big(n)), f |-> Prepend(I64Rem(st.d, Nat2Big(n)), unit, st.f)]

\* if d > 0 { f = fmt.Sprintf("%d<unit>", d) + f }; return f
LastField(st, unit) == IF I64Gt(st.d, I64Zero) THEN Sprintd(st.d, unit) \o st.f ELSE st.f

formatHigh(d) ==
    LastField(Field(Field(Field([d |-> I64Quo(d, Second), f |-> << >>],
                                60, <<"s">>), 60, <<"m">>), 24, <<"h">>), <<"d">>)

formatLow(d) ==
    LastField(Field(Field([d |-> I64Rem(d, Second), f |-> << >>],
                          1000, <<"n", "s">>), 1000, Mu \o <<"s">>), <<"m", "s">>)

\* The two halves joined in the other order.
FormatDurationLowFirst(d) ==
    IF d = I64Zero THEN <<"0", "s">> ELSE formatLow(d) \o formatHigh(d)

FormatDuration(d) ==
    IF d = I64Zero THEN <<"0", "s">> ELSE formatHigh(d) \o formatLow(d)

\* d.Round(m) for m > 0 in place of d.Truncate(m): halfway values away from zero.
TruncateRound(d, m) ==
    LET r == I64Rem(d, m)
    IN  IF Lt(Add(r.mag, r.mag), m) THEN I64SubRem(d, r)
        ELSE I64(d.neg, Add(Sub(d.mag, r.mag), m))

\* time.Duration.Truncate(m) for m > 0: d - d%m.
Truncate(d, m) == I64SubRem(d, I64Rem(d, m))

I64Pos(mag) == I64(FALSE, mag)

FormatSimplifiedDuration(d) ==
    IF I64Gt(d, I64Pos(day))
    THEN I64String(I64Quo(Truncate(d, day), day)) \o <<"d", " ">>
         \o I64String(I64Quo(I64Rem(d, day), Hour)) \o <<"h">>
    ELSE IF I64Gt(d, I64Pos(Hour)) THEN Sprintd(I64Quo(Truncate(d, Hour), Hour), <<"h">>)
    ELSE IF I64Gt(d, I64Pos(Minute)) THEN Sprintd(I64Quo(Truncate(d, Minute), Minute), <<"m">>)
    ELSE IF I64Gt(d, I64Pos(Second)) THEN Sprintd(I64Quo(Truncate(d, Second), Second), <<"s">>)
    ELSE IF I64Gt(d, I64Pos(Millisecond))
    THEN Sprintd(I64Quo(Truncate(d, Millisecond), Millisecond), <<"m", "s">>)
    ELSE IF I64Gt(d, I64Pos(Microsecond))
    THEN Sprintd(I64Quo(Truncate(d, Microsecond), Microsecond), Mu \o <<"s">>)
    ELSE Sprintd(d, <<"n", "s">>)

(***************************************************************************)
(* time.Time: abs is the instant in nanoseconds since the zero time        *)
(* 0001-01-01T00:00:00Z and off is the offset, in seconds east of UTC, of  *)
(* its location.  Locations are time.UTC and fixed zones.                  *)
(***************************************************************************)
Time(abs, off) == [abs |-> abs, off |-> off]

\* time.Time{}
ZeroTime == Time(<< >>, 0)

\* A natural number below 2^31 as an integer.
RECURSIVE Big2Nat(_)
Big2Nat(a) == IF a = << >> THEN 0 ELSE a[1] + Base * Big2Nat(Tail(a))

\* a + k seconds, for an integer k of either sign.
AddSeconds(a, k) ==
    IF k >= 0 THEN Add(a, Mul(Nat2Big(k), Second)) ELSE Sub(a, Mul(Nat2Big(-k), Second))

isLeap(y) == y % 4 = 0 /\ (y % 100 # 0 \/ y % 400 = 0)

\* The days of the year before month m.
daysBefore(m, y) ==
    <<0, 31, 59, 90, 120, 151, 181, 212, 243, 273, 304, 334, 365>>[m]
    + (IF m > 2 /\ isLeap(y) THEN 1 ELSE 0)

daysIn(m, y) == daysBefore(m + 1, y) - daysBefore(m, y)

\* The days from the zero time to the first day of year y.
daysSinceEpoch(y) ==
    365 * (y - 1) + ((y - 1) \div 4) - ((y - 1) \div 100) + ((y - 1) \div 400)

\* The year, month and day of the day n days after the zero time.
absDate(n) ==
    LET n400 == n \div 146097
        d1   == n - 146097 * n400
        c0   == d1 \div 36524
        c    == c0 - (c0 \div 4)
        d2   == d1 - 36524 * c
        q    == d2 \div 1461
        d3   == d2 - 1461 * q
        a0   == d3 \div 365
        a    == a0 - (a0 \div 4)
        yday == d3 - 365 * a
        y    == 400 * n400 + 100 * c + 4 * q + a + 1
        m    == CHOOSE k \in 1..12 : daysBefore(k, y) <= yday /\ yday < daysBefore(k + 1, y)
    IN  [year |-> y, month |-> m, day |-> yday - daysBefore(m, y) + 1]

\* The instant as seen on the clock of t's location, since the zero time.
LocalAbs(t) == AddSeconds(t.abs, t.off)

\* t.Date() and t.Clock() (the clock as nanoseconds since local midnight).
LocalDate(t)  == absDate(Big2Nat(Div(LocalAbs(t), day)))
LocalClock(t) == DivMod(LocalAbs(t), day)[2]

\* time.Date(y, m, d, ...) in the location of offset off, the clock given as
\* nanoseconds since midnight; d may lie outside the month and is normalised.
Date(y, m, d, clock, off) ==
    LET days == daysSinceEpoch(y) + daysBefore(m, y) + d - 1
    IN  Time(AddSeconds(Add(Mul(Nat2Big(days), day), clock), -off), off)

\* t.Truncate(d) for d > 0: t less its remainder by d since the zero time.
TimeTruncate(t, d) == Time(Sub(t.abs, DivMod(t.abs, d)[2]), t.off)

\* t.AddDate(0, 0, days)
AddDaysTo(dt, days, clock, off) == Date(dt.year, dt.month, dt.day + days, clock, off)

AddDays(t, days) == AddDaysTo(LocalDate(t), days, LocalClock(t), t.off)

\* t.Add(d)
TimeAdd(t, d) == Time(IF d.neg THEN Sub(t.abs, d.mag) ELSE Add(t.abs, d.mag), t.off)

\* t.Format("2006"): the year of t in its location, four digits.
RECURSIVE PadZeros(_, _)
PadZeros(s, n) == IF Len(s) >= n THEN s ELSE PadZeros(<<"0">> \o s, n)

FormatYear(t) == PadZeros(NatString(Nat2Big(LocalDate(t).year)), 4)

(***************************************************************************)
(* time.Parse for the layouts ParseExprRef uses.  A field is read as two   *)
(* (the year: four) digits; the values of the model carry no fractional    *)
(* seconds and no one-digit hour, which Parse would also read.             *)
(***************************************************************************)
ErrParse == "parsing time"

AllDigits(s, i, j) == j <= Len(s) /\ \A k \in i..j : IsDigit(s[k])

Num2(s, i) == 10 * DigitVal(s[i]) + DigitVal(s[i + 1])
Num4(s, i) == 100 * Num2(s, i) + Num2(s, i + 2)

At(s, i, c) == i <= Len(s) /\ s[i] = c

\* The date at the head of value under "2006-01-02": ok is whether the
\* fields were read and month is in range (the day is checked at the end).
DateFields(value) ==
    IF /\ AllDigits(value, 1, 4) /\ At(value, 5, "-")
       /\ AllDigits(value, 6, 7) /\ At(value, 8, "-")
       /\ AllDigits(value, 9, 10)
       /\ Num2(value, 6) >= 1 /\ Num2(value, 6) <= 12
    THEN [ok |-> TRUE, year |-> Num4(value, 1), month |-> Num2(value, 6),
          day |-> Num2(value, 9)]
    ELSE [ok |-> FALSE, year |-> 0, month |-> 0, day |-> 0]

DayInRange(f) == f.day >= 1 /\ f.day <= daysIn(f.month, f.year)

ParseFail == [t |-> ZeroTime, err |-> ErrParse]

\* time.Parse("2006-01-02", value)
ParseDate(value) ==
    LET f == DateFields(value)
    IN  IF f.ok /\ Len(value) = 10 /\ DayInRange(f)
        THEN [t |-> Date(f.year, f.month, f.day, << >>, 0), err |-> "nil"]
        ELSE ParseFail

\* The zone at byte i of value under "Z07:00": the offset in seconds.
ZoneFields(value, i) ==
    IF At(value, i, "Z") /\ Len(value) = i THEN [ok |-> TRUE, off |-> 0]
    ELSE IF /\ (At(value, i, "+") \/ At(value, i, "-"))
            /\ AllDigits(value, i + 1, i + 2) /\ At(value, i + 3, ":")
            /\ AllDigits(value, i + 4, i + 5) /\ Len(value) = i + 5
            /\ Num2(value, i + 1) <= 24 /\ Num2(value, i + 4) <= 60
    THEN [ok |-> TRUE,
          off |-> (IF value[i] = "-" THEN -1 ELSE 1)
                  * (Num2(value, i + 1) * 60 + Num2(value, i + 4)) * 60]
    ELSE [ok |-> FALSE, off |-> 0]

\* time.Parse(time.RFC3339, value)
ParseRFC3339(value) ==
    LET f == DateFields(value)
        z == ZoneFields(value, 20)
    IN  IF /\ f.ok /\ At(value, 11, "T")
           /\ AllDigits(value, 12, 13) /\ At(value, 14, ":")
           /\ AllDigits(value, 15, 16) /\ At(value, 17, ":")
           /\ AllDigits(value, 18, 19)
           /\ Num2(value, 12) < 24 /\ Num2(value, 15) < 60 /\ Num2(value, 18) < 60
           /\ z.ok /\ DayInRange(f)
        THEN [t |-> Date(f.year, f.month, f.day,
                         Mul(Nat2Big((Num2(value, 12) * 60 + Num2(value, 15)) * 60
                                     + Num2(value, 18)), Second),
                         z.off),
              err |-> "nil"]
        ELSE ParseFail

(***************************************************************************)
(* ParseExprRef.                                                           *)
(***************************************************************************)
errNoTimeSpecified == "No time specified"

IsSpace(c) == c \in {" ", "\t", "\n", "\r", "\f"}

RECURSIVE TrimLeft(_)
TrimLeft(s) == IF s # << >> /\ IsSpace(s[1]) THEN TrimLeft(Tail(s)) ELSE s

RECURSIVE TrimRight(_)
TrimRight(s) ==
    IF s # << >> /\ IsSpace(s[Len(s)]) THEN TrimRight(SubSeq(s, 1, Len(s) - 1)) ELSE s

\* strings.TrimSpace
TrimSpace(s) == TrimRight(TrimLeft(s))

formatDate      == <<"2", "0", "0", "6", "-", "0", "1", "-", "0", "2">>
formatShortDate == <<"0", "1", "-", "0", "2">>

today     == <<"t", "o", "d", "a", "y">>
yesterday == <<"y", "e", "s", "t", "e", "r", "d", "a", "y">>
tomorrow  == <<"t", "o", "m", "o", "r", "r", "o", "w">>
now       == <<"n", "o", "w">>

\* A test for '-' alone.
HasSignMinusOnly(v) == v[1] = "-"

\* f := v[0]; f == '+' || f == '-'
HasSign(v) == v[1] = "+" \/ v[1] = "-"

\* d, err := ParseDuration(v) and the two returns that follow, r being d
\* and err.
Relative(ref, r) ==
    IF r.err # "nil" THEN [t |-> ZeroTime, err |-> r.err]
    ELSE [t |-> TimeAdd(ref, r.d), err |-> "nil"]

\* ParseExprRef past v := strings.TrimSpace(s).
ParseTrimmed(v, ref) ==
    IF v = << >> THEN [t |-> ZeroTime, err |-> errNoTimeSpecified]
    ELSE IF v = today THEN [t |-> TimeTruncate(ref, day), err |-> "nil"]
    ELSE IF v = yesterday THEN [t |-> AddDays(TimeTruncate(ref, day), -1), err |-> "nil"]
    ELSE IF v = tomorrow THEN [t |-> AddDays(TimeTruncate(ref, day), 1), err |-> "nil"]
    ELSE IF v = now THEN [t |-> ref, err |-> "nil"]
    ELSE IF HasSign(v)
    THEN Relative(ref, ParseDuration(v))
    ELSE IF Len(v) = Len(formatShortDate)
    THEN ParseDate(FormatYear(ref) \o <<"-">> \o v)
    ELSE IF Len(v) = Len(formatDate)
    THEN ParseDate(v)
    ELSE ParseRFC3339(v)

ParseExprRef(s, ref) == ParseTrimmed(TrimSpace(s), ref)

(***************************************************************************)
(* Duration.MarshalJSON and Duration.UnmarshalJSON.  The text the          *)
(* formatter produces holds no byte encoding/json escapes, so the JSON     *)
(* form of a string is the string between double quotes.                   *)
(***************************************************************************)
ErrJSON == "json: cannot unmarshal"

\* json.Marshal(s) for a string s
JSONMarshal(s) == <<"\"">> \o s \o <<"\"">>

JSONIsString(data) == Len(data) >= 2 /\ data[1] = "\"" /\ data[Len(data)] = "\""

\* json.Unmarshal(data, &s), given JSONIsString(data)
JSONUnmarshal(data) == SubSeq(data, 2, Len(data) - 1)

MarshalJSON(d) == JSONMarshal(FormatDuration(d))

\* The receiver *d after the call, from its value d0 before, and the error.
Assign(d0, r) == IF r.err # "nil" THEN [d |-> d0, err |-> r.err] ELSE r

UnmarshalJSON(d0, data) ==
    IF ~JSONIsString(data) THEN [d |-> d0, err |-> ErrJSON]
    ELSE Assign(d0, ParseDuration(JSONUnmarshal(data)))

(***************************************************************************)
(* The calls the model makes.  An argument is kept in the parts it is      *)
(* built from, so that what a call must return can be stated from the      *)
(* parts and not from the function under study.                            *)
(***************************************************************************)
\* Bounds of the model.
MaxDays   == 1
MaxTokens == 2

\* The names of the units FormatDuration writes, largest first.
CompNames == << <<"d">>, <<"h">>, <<"m">>, <<"s">>, <<"m", "s">>, Mu \o <<"s">>, <<"n", "s">> >>

\* The nanoseconds of the components c = <<d, h, m, s, ms, us, ns>>.
CompMag(c) ==
    Add(Add(Add(Mul(Nat2Big(c[1]), day), Mul(Nat2Big(c[2]), Hour)),
            Add(Mul(Nat2Big(c[3]), Minute), Mul(Nat2Big(c[4]), Second))),
        Add(Add(Mul(Nat2Big(c[5]), Millisecond), Mul(Nat2Big(c[6]), Microsecond)),
            Nat2Big(c[7])))

\* The duration of the argument a = [neg, c].
DurOf(a) == I64(a.neg, CompMag(a.c))

CompGrid ==
    ((0..MaxDays) \cup {106751}) \X {0, 23} \X {0, 59} \X {0, 59}
        \X {0, 999} \X {0, 999} \X {0, 999}

\* One unit exactly, one unit and a nanosecond, and the ends of the range.
CompSpecial ==
    { <<0, 1, 0, 0, 0, 0, 0>>, <<0, 0, 1, 0, 0, 0, 0>>, <<0, 0, 0, 1, 0, 0, 0>>,
      <<0, 0, 0, 0, 1, 0, 0>>, <<0, 0, 0, 0, 0, 1, 0>>, <<0, 0, 0, 0, 0, 0, 1>>,
      <<1, 0, 0, 0, 0, 0, 1>>, <<0, 1, 0, 0, 0, 0, 1>>, <<0, 0, 1, 0, 0, 0, 1>>,
      <<0, 0, 0, 1, 0, 0, 1>>, <<0, 0, 0, 0, 1, 0, 1>>, <<0, 0, 0, 0, 0, 1, 1>>,
      <<1, 1, 0, 0, 0, 0, 0>>, <<8, 8, 8, 8, 8, 8, 8>>, <<366, 1, 1, 1, 1, 1, 1>>,
      <<0, 0, 0, 0, 800, 0, 0>>,
      <<106751, 23, 47, 16, 854, 775, 807>>, <<106751, 23, 47, 16, 854, 775, 808>> }

DurationArgs ==
    { a \in [neg : BOOLEAN, c : CompGrid \cup CompSpecial] :
        /\ a.neg => CompMag(a.c) # << >>
        /\ Le(CompMag(a.c), IF a.neg THEN TwoTo63 ELSE Sub(TwoTo63, <<1>>)) }

\* A token of a duration string: integer digits, whether a '.' follows,
\* fraction digits, unit.
Tok(i, dot, f, u) == [i |-> i, dot |-> dot, f |-> f, u |-> u]

TokText(t) == t.i \o (IF t.dot THEN <<".">> ELSE << >>) \o t.f \o t.u

RECURSIVE ToksText(_)
ToksText(ts) == IF ts = << >> THEN << >> ELSE TokText(Head(ts)) \o ToksText(Tail(ts))

\* The text of the argument a = [class, sign, toks, tail].
ParseText(a) == a.sign \o ToksText(a.toks) \o a.tail

RECURSIVE SeqsUpTo(_, _)
SeqsUpTo(S, n) ==
    IF n = 0 THEN { << >> }
    ELSE LET P == SeqsUpTo(S, n - 1) IN P \cup { Append(q, t) : q \in P, t \in S }

Dec(n) == NatString(Nat2Big(n))

IntTok(i, u) == Tok(i, FALSE, << >>, u)

IntTokens ==
    { IntTok(Dec(0), <<"n", "s">>), IntTok(Dec(1), <<"n", "s">>),
      IntTok(NatString(Sub(TwoTo63, <<1>>)), <<"n", "s">>),
      IntTok(NatString(TwoTo63), <<"n", "s">>),
      IntTok(NatString(Add(TwoTo63, <<1>>)), <<"n", "s">>),
      IntTok(NatString(TwoTo64), <<"n", "s">>),
      IntTok(<<"0", "0">> \o NatString(Pow10(20)), <<"n", "s">>),
      IntTok(Dec(1), Mu \o <<"s">>), IntTok(Dec(1), <<"h">>),
      IntTok(Dec(1), <<"w">>), IntTok(Dec(15250), <<"w">>), IntTok(Dec(15251), <<"w">>) }

Signs == { << >>, <<"+">>, <<"-">> }

IntArgs ==
    { [class |-> "int", sign |-> sg, toks |-> ts, tail |-> << >>] :
        sg \in Signs, ts \in SeqsUpTo(IntTokens, MaxTokens) \ { << >> } }

Fractions ==
    { << >>, <<"5">>, <<"2", "5">>, <<"0", "5">>, <<"1", "2", "5">>,
      <<"0", "0", "0", "0", "0", "0", "0", "0", "1">>,
      <<"9", "9", "9", "9", "9", "9", "9", "9", "9">>,
      <<"9", "9", "9", "9", "9", "9", "9", "9", "9", "9", "9">>,
      <<"7", "8", "4", "3", "6", "4", "5">>,
      <<"7", "8", "4", "3", "6", "4", "5", "0", "0", "0", "0", "0">>,
      <<"9", "9", "9", "9", "9", "9", "9", "9", "9", "9", "9", "9", "9",
        "9", "9", "9", "9", "9", "9", "9", "9", "9", "9", "9", "9">> }

FracUnits ==
    { <<"n", "s">>, <<"u", "s">>, <<"m", "s">>, <<"s">>, <<"m">>, <<"h">>, <<"d">>, <<"w">> }

FracArgs ==
    { [class |-> "frac", sign |-> << >>, toks |-> <<Tok(i, TRUE, f, u)>>, tail |-> << >>] :
        i \in { << >>, Dec(1) }, f \in Fractions, u \in FracUnits }
    \ { [class |-> "frac", sign |-> << >>, toks |-> <<Tok(<< >>, TRUE, << >>, u)>>,
         tail |-> << >>] : u \in FracUnits }

\* Well-formed tokens put before a malformed tail.
Prefixes == { << >>, <<IntTok(Dec(1), <<"h">>)>>, <<IntTok(Dec(5), Mu \o <<"s">>)>> }

BadArg(class, sg, pre, tail) == [class |-> class, sign |-> sg, toks |-> pre, tail |-> tail]

\* Nothing at all after the sign.
EmptyArgs == { BadArg("empty", sg, << >>, << >>) : sg \in Signs }

\* A token with no digit on either side of its '.'.
NoDigitArgs ==
    { BadArg("nodigit", sg, pre, tail) :
        sg \in Signs, pre \in Prefixes, tail \in { <<".">>, <<".", "s">>, <<".", "h", "1", "s">> } }

\* A first byte that is neither a digit nor '.'.
BadStartArgs ==
    { BadArg("badstart", sg, << >>, tail) :
        sg \in Signs, tail \in { <<"s">>, <<"x", "5", "s">>, <<" ", "5", "s">> } }
    \cup
    { BadArg("badstart", sg, << >>, tail) :
        sg \in Signs \ { << >> }, tail \in { <<"+", "5", "s">>, <<"-", "5", "s">> } }

\* Digits and then the end of the text or a '.' again.
NoUnitArgs ==
    { BadArg("nounit", sg, pre, tail) :
        sg \in Signs, pre \in Prefixes,
        tail \in { <<"5">>, <<"5", ".">>, <<"5", ".", "5">>, <<".", "5">>,
                   <<"0", "0">>, <<"1", ".", "5", ".", "5", "s">> } }

\* Digits and then text that is no unit.
UnknownUnitArgs ==
    { BadArg("unknown", sg, pre, tail) :
        sg \in Signs, pre \in Prefixes,
        tail \in { <<"5", "x">>, <<"5", "h", "h">>, <<"5", " ", "s">>, <<"5", "H">>,
                   <<"1", ".", "5", "s", "-">>, <<"5", "0xC2", "s">>, <<"5", "h", "+", "1", "m">> } }

BadArgs == EmptyArgs \cup NoDigitArgs \cup BadStartArgs \cup NoUnitArgs \cup UnknownUnitArgs

ParseArgs == IntArgs \cup FracArgs \cup BadArgs

\* A reference time in the parts time.Date takes: the clock in seconds
\* since local midnight and the offset in seconds east of UTC.
Ref(y, m, d, clock, off) == [year |-> y, month |-> m, day |-> d, clock |-> clock, off |-> off]

RefTime(r) == Date(r.year, r.month, r.day, Mul(Nat2Big(r.clock), Second), r.off)

Refs ==
    { Ref(2024, 11, 14, 65820, 0),        \* 2024-11-14T18:17:00Z
      Ref(2024, 11, 14, 65820, -18000),   \* 2024-11-14T18:17:00-05:00
      Ref(2024, 11, 15, 3600, 7200),      \* 2024-11-15T01:00:00+02:00
      Ref(2023, 3, 1, 0, 0),              \* 2023-03-01T00:00:00Z
      Ref(2024, 12, 31, 72000, -18000),   \* 2024-12-31T20:00:00-05:00
      Ref(2024, 2, 29, 43200, 19800) }    \* 2024-02-29T12:00:00+05:30

\* The expressions by the form they are written in.
ConstExprs == { today, yesterday, tomorrow, now }

RelativeExprs ==
    { <<"-", "1", "h">>, <<"+", "1", "d">>, <<"-", "1", "0", "d">>,
      <<"+", "1", "d", "2", "h">>,
      <<"+", "1", "d", "2", "h", "3", "m", "4", "0", "s">>,
      <<"-", "0", "5", "-", "0", "1">>,
      <<"-", "1", ".", "5", "h">>, <<"+", "0">>, <<"-">>, <<"+", "5">>, <<"+", "5", "x">>,
      <<"-", "n", "o", "w">>, <<"+", "t", "o", "d", "a", "y">> }

ShortExprs ==
    { <<"0", "5", "-", "0", "1">>, <<"0", "2", "-", "2", "9">>, <<"1", "3", "-", "0", "1">>,
      <<"1", "2", "-", "3", "1">>, <<"1", "h", "3", "0", "m">>, <<"T", "o", "d", "a", "y">>,
      <<"n", "o", " ", "w", ".">> }

DateExprs ==
    { <<"2", "0", "2", "1", "-", "0", "5", "-", "0", "1">>,
      <<"2", "0", "2", "1", "-", "0", "2", "-", "2", "9">>,
      <<"2", "0", "2", "0", "-", "0", "2", "-", "2", "9">>,
      <<"2", "0", "2", "1", "/", "0", "5", "/", "0", "1">>,
      <<"1", "d", "2", "h", "3", "m", "4", "s", "5", "u">> }

OtherExprs ==
    { <<"?", "?", "?">>, <<"1", "h">>, <<"n", "o", "w", "!">>,
      <<"2", "0", "2", "4", "-", "1", "1", "-", "1", "4", "T", "1", "8", ":", "1", "7",
        ":", "0", "0", "Z">>,
      <<"2", "0", "2", "4", "-", "1", "1", "-", "1", "4", "T", "1", "8", ":", "1", "7",
        ":", "0", "0", "-", "0", "5", ":", "0", "0">>,
      <<"2", "0", "2", "4", "-", "1", "1", "-", "1", "4", " ", "1", "8", ":", "1", "7",
        ":", "0", "0", "Z">>,
      <<"2", "0", "2", "4", "-", "1", "1", "-", "3", "1", "T", "1", "8", ":", "1", "7",
        ":", "0", "0", "Z">>,
      <<"2", "0", "2", "4", "-", "1", "1", "-", "1", "4", "T", "2", "4", ":", "1", "7",
        ":", "0", "0", "Z">>,
      <<"2", "0", "2", "1", "-", "0", "5", "-", "0", "1", "Z">> }

Pads == { << << >>, << >> >>, << <<" ">>, <<"\n">> >>, << <<"\t", " ">>, << >> >> }

ExprArgsOf(form, exprs) ==
    { [form |-> form, pad |-> pd, expr |-> e, ref |-> r] :
        pd \in Pads, e \in exprs, r \in Refs }

ExprArgs ==
    ExprArgsOf("empty", { << >> }) \cup ExprArgsOf("const", ConstExprs)
    \cup ExprArgsOf("relative", RelativeExprs) \cup ExprArgsOf("short", ShortExprs)
    \cup ExprArgsOf("date", DateExprs) \cup ExprArgsOf("other", OtherExprs)

\* The text of the argument a = [form, pad, expr, ref].
ExprText(a) == a.pad[1] \o a.expr \o a.pad[2]

(***************************************************************************)
(* The state machine: a caller makes one call of the package.  op and arg  *)
(* are the call; text is the string a formatter or MarshalJSON returned;   *)
(* dres is what ParseDuration or UnmarshalJSON returned, tres what         *)
(* ParseExprRef returned.                                                  *)
(***************************************************************************)
VARIABLES pc, op, arg, text, dres, tres

vars == <<pc, op, arg, text, dres, tres>>

Calls ==
    ({"FormatDuration", "FormatSimplifiedDuration", "JSON"} \X DurationArgs)
    \cup ({"ParseDuration"} \X ParseArgs)
    \cup ({"ParseExprRef"} \X ExprArgs)

Init ==
    /\ pc = "call"
    /\ \E c \in Calls : op = c[1] /\ arg = c[2]
    /\ text = << >>
    /\ dres = [d |-> I64Zero, err |-> "none"]
    /\ tres = [t |-> ZeroTime, err |-> "none"]

CallFormatDuration ==
    /\ pc = "call" /\ op = "FormatDuration"
    /\ text' = FormatDuration(DurOf(arg))
    /\ pc' = "done"
    /\ UNCHANGED <<op, arg, dres, tres>>

CallFormatSimplifiedDuration ==
    /\ pc = "call" /\ op = "FormatSimplifiedDuration"
    /\ text' = FormatSimplifiedDuration(DurOf(arg))
    /\ pc' = "done"
    /\ UNCHANGED <<op, arg, dres, tres>>

CallMarshalJSON ==
    /\ pc = "call" /\ op = "JSON"
    /\ text' = MarshalJSON(DurOf(arg))
    /\ pc' = "marshalled"
    /\ UNCHANGED <<op, arg, dres, tres>>

CallUnmarshalJSON ==
    /\ pc = "marshalled"
    /\ dres' = UnmarshalJSON(I64Zero, text)
    /\ pc' = "done"
    /\ UNCHANGED <<op, arg, text, tres>>

CallParseDuration ==
    /\ pc = "call" /\ op = "ParseDuration"
    /\ dres' = ParseDuration(ParseText(arg))
    /\ pc' = "done"
    /\ UNCHANGED <<op, arg, text, tres>>

CallParseExprRef ==
    /\ pc = "call" /\ op = "ParseExprRef"
    /\ tres' = ParseExprRef(ExprText(arg), RefTime(arg.ref))
    /\ pc' = "done"
    /\ UNCHANGED <<op, arg, text, dres>>

Next ==
    \/ CallFormatDuration
    \/ CallFormatSimplifiedDuration
    \/ CallMarshalJSON
    \/ CallUnmarshalJSON
    \/ CallParseDuration
    \/ CallParseExprRef

Spec == Init /\ [][Next]_vars

Done(o) == pc = "done" /\ op = o

(***************************************************************************)
(* What the calls must return, stated from the parts of the argument.      *)
(***************************************************************************)
\* The value of a run of decimal digits.
RECURSIVE DecValFrom(_, _, _)
DecValFrom(s, i, acc) ==
    IF i > Len(s) THEN acc
    ELSE LET a == Add(MulSmall(acc, 10), Nat2Big(DigitVal(s[i])))
         IN  IF Len(a) >= 0 THEN DecValFrom(s, i + 1, a) ELSE a

DecVal(s) == DecValFrom(s, 1, << >>)

\* The decimal digits of an integer n >= 0.
RECURSIVE SmallDec(_)
SmallDec(n) ==
    IF n < 10 THEN <<DigitChars[n + 1]>>
    ELSE SmallDec(n \div 10) \o <<DigitChars[(n % 10) + 1]>>

\* The sum of magnitude * unit scale over the integer tokens ts.
RECURSIVE MathSum(_)
MathSum(ts) ==
    IF ts = << >> THEN << >>
    ELSE LET v == Mul(DecVal(Head(ts).i), unitMap[Head(ts).u])
         IN  IF Len(v) >= 0 THEN Add(v, MathSum(Tail(ts))) ELSE v

\* The non-zero components c, largest unit first, from component i on.
RECURSIVE CanonFrom(_, _)
CanonFrom(c, i) ==
    IF i > 7 THEN << >>
    ELSE (IF c[i] = 0 THEN << >> ELSE SmallDec(c[i]) \o CompNames[i]) \o CanonFrom(c, i + 1)

Canon(c) == IF \A i \in 1..7 : c[i] = 0 THEN <<"0", "s">> ELSE CanonFrom(c, 1)

\* Whether a component after component i is not zero.
RestAfter(c, i) == \E j \in (i + 1)..7 : c[j] # 0

\* Whether t units and the components after component i exceed one unit.
Exceeds(c, i, t) == t > 1 \/ (t = 1 /\ RestAfter(c, i))

\* The one rendering of the duration of components c >= 0: the largest
\* unit it strictly exceeds, in whole units.
Simplified(c) ==
    IF Exceeds(c, 1, c[1])
    THEN SmallDec(c[1]) \o <<"d", " ">> \o SmallDec(c[2]) \o <<"h">>
    ELSE LET th == 24 * c[1] + c[2] IN
    IF Exceeds(c, 2, th) THEN SmallDec(th) \o <<"h">>
    ELSE LET tm == 60 * th + c[3] IN
    IF Exceeds(c, 3, tm) THEN SmallDec(tm) \o <<"m">>
    ELSE LET ts == 60 * tm + c[4] IN
    IF Exceeds(c, 4, ts) THEN SmallDec(ts) \o <<"s">>
    ELSE LET tms == 1000 * ts + c[5] IN
    IF Exceeds(c, 5, tms) THEN SmallDec(tms) \o <<"m", "s">>
    ELSE LET tus == 1000 * tms + c[6] IN
    IF Exceeds(c, 6, tus) THEN SmallDec(tus) \o Mu \o <<"s">>
    ELSE SmallDec(1000 * tus + c[7]) \o <<"n", "s">>

\* Whether text is "-<n>ns" for the decimal n > 0 of magnitude mag.
IsNegativeNs(txt, mag) ==
    /\ Len(txt) >= 4
    /\ txt[1] = "-" /\ txt[2] # "0"
    /\ SubSeq(txt, Len(txt) - 1, Len(txt)) = <<"n", "s">>
    /\ \A k \in 2..(Len(txt) - 2) : IsDigit(txt[k])
    /\ DecVal(SubSeq(txt, 2, Len(txt) - 2)) = mag

\* The error kind of each class of malformed duration text.
ExpectedErr(class) ==
    CASE class = "empty"    -> "time: invalid duration"
      [] class = "nodigit"  -> "time: invalid duration"
      [] class = "badstart" -> "time: invalid duration"
      [] class = "nounit"   -> "time: missing unit in duration"
      [] class = "unknown"  -> "time: unknown unit"

\* What the branch of the form of a = [form, pad, expr, ref] returns.
ExpectedExpr(a) ==
    LET ref == RefTime(a.ref) IN
    CASE a.form = "empty" -> [t |-> ZeroTime, err |-> "No time specified"]
      [] a.form = "const" ->
            [t |-> IF a.expr = today THEN TimeTruncate(ref, day)
                   ELSE IF a.expr = yesterday THEN AddDays(TimeTruncate(ref, day), -1)
                   ELSE IF a.expr = tomorrow THEN AddDays(TimeTruncate(ref, day), 1)
                   ELSE ref,
             err |-> "nil"]
      [] a.form = "relative" ->
            LET r == ParseDuration(a.expr)
            IN  IF r.err # "nil" THEN [t |-> ZeroTime, err |-> r.err]
                ELSE [t |-> TimeAdd(ref, r.d), err |-> "nil"]
      [] a.form = "short" -> ParseDate(SmallDec(a.ref.year) \o <<"-">> \o a.expr)
      [] a.form = "date"  -> ParseDate(a.expr)
      [] a.form = "other" -> ParseRFC3339(a.expr)

\* The one fractional token of a = [class, sign, toks, tail] of class "frac".
FracTok(a) == a.toks[1]

\* floor(F * scale(unit) / 10^k) for the fraction digits F of token t.
FracExact(t) == Div(Mul(DecVal(t.f), unitMap[t.u]), Pow10(Len(t.f)))

\* Whether 10^k divides scale(unit) for the k fraction digits of token t.
FracDivides(t) == DivMod(unitMap[t.u], Pow10(Len(t.f)))[2] = << >>

\* |a - b| <= 1
Within1(a, b) == IF Ge(a, b) THEN Le(Sub(a, b), <<1>>) ELSE Le(Sub(b, a), <<1>>)

(***************************************************************************)
(* The claims.                                                             *)
(***************************************************************************)
\* C1: for every duration d with 0 <= d <= 2^63-1, ParseDuration of
\* FormatDuration(d) succeeds and returns d, and UnmarshalJSON of the output
\* of MarshalJSON restores d.
C1_RoundTrip ==
    /\ (Done("JSON") /\ ~arg.neg) => dres = [d |-> DurOf(arg), err |-> "nil"]
    /\ (Done("FormatDuration") /\ ~arg.neg) =>
           ParseDuration(text) = [d |-> DurOf(arg), err |-> "nil"]

\* C1: the largest duration, 2^63-1 ns, has gone through MarshalJSON and
\* UnmarshalJSON and come back.
C1_Witness ==
    /\ Done("JSON")
    /\ arg = [neg |-> FALSE, c |-> <<106751, 23, 47, 16, 854, 775, 807>>]
    /\ dres = [d |-> I64(FALSE, Sub(TwoTo63, <<1>>)), err |-> "nil"]

\* C2: for an optional sign and one or more integer tokens, ParseDuration
\* returns the mathematical sum of the tokens (negated under '-') or an
\* error, never another value.
C2_NoSilentWraparound ==
    (Done("ParseDuration") /\ arg.class = "int") =>
        \/ dres.err # "nil"
        \/ dres.d = I64(arg.sign = <<"-">>, MathSum(arg.toks))

\* C3: for the single token "<n>ns", ParseDuration without a sign or with
\* '+' succeeds iff n <= 2^63-1, and with '-' succeeds iff n <= 2^63; a
\* success returns n under its sign.
C3_NsBoundary ==
    (/\ Done("ParseDuration") /\ arg.class = "int"
     /\ Len(arg.toks) = 1 /\ arg.toks[1].u = <<"n", "s">>) =>
        LET n == DecVal(arg.toks[1].i)
        IN  IF arg.sign = <<"-">>
            THEN IF Le(n, TwoTo63) THEN dres = [d |-> I64(TRUE, n), err |-> "nil"]
                 ELSE dres.err # "nil"
            ELSE IF Lt(n, TwoTo63) THEN dres = [d |-> I64(FALSE, n), err |-> "nil"]
                 ELSE dres.err # "nil"

\* C3: "-9223372036854775808ns" has been parsed and gave -2^63.
C3_Witness ==
    /\ Done("ParseDuration") /\ arg.class = "int"
    /\ arg.sign = <<"-">> /\ Len(arg.toks) = 1
    /\ arg.toks[1].u = <<"n", "s">> /\ DecVal(arg.toks[1].i) = TwoTo63
    /\ dres = [d |-> I64(TRUE, TwoTo63), err |-> "nil"]

C5_LocalMidnight ==
    (Done("ParseExprRef") /\ arg.form = "const" /\ arg.expr # now) =>
        LET k == IF arg.expr = today THEN 0 ELSE IF arg.expr = yesterday THEN -1 ELSE 1
        IN  /\ tres.err = "nil"
            /\ tres.t = Date(arg.ref.year, arg.ref.month, arg.ref.day + k, << >>,
                             arg.ref.off)

\* C6: ParseDuration rejects malformed text with the error kind of its
\* class (nothing after the sign, no digit around the '.', a first byte
\* that is neither digit nor '.': invalid duration; digits and no unit:
\* missing unit; a unit not in the table: unknown unit), and every error
\* comes with the zero duration.
C6_MalformedRejected ==
    Done("ParseDuration") =>
        /\ arg.class \in {"empty", "nodigit", "badstart", "nounit", "unknown"} =>
               dres = [d |-> I64Zero, err |-> ExpectedErr(arg.class)]
        /\ dres.err # "nil" => dres.d = I64Zero

\* C6: "5x" has been rejected as an unknown unit.
C6_Witness ==
    /\ Done("ParseDuration") /\ arg.class = "unknown"
    /\ ParseText(arg) = <<"5", "x">>
    /\ dres = [d |-> I64Zero, err |-> "time: unknown unit"]

\* C7: FormatDuration(0) is "0s", and for d > 0 FormatDuration(d) is the
\* non-zero components of d in the order d, h, m, s, ms, µs, ns with no
\* separator, a zero component never written.
C7_CanonicalForm ==
    (Done("FormatDuration") /\ ~arg.neg) => text = Canon(arg.c)

\* C7: a duration with zero components between non-zero ones, 1d 59m 999µs,
\* has been formatted.
C7_Witness ==
    /\ Done("FormatDuration") /\ ~arg.neg
    /\ arg.c = <<1, 0, 59, 0, 0, 999, 0>>
    /\ text = <<"1", "d", "5", "9", "m", "9", "9", "9">> \o Mu \o <<"s">>

\* C8 as stated: a token I.F<unit> with k fraction digits gives
\* I*scale + F*scale/10^k, exactly when 10^k divides scale and truncated
\* toward zero otherwise.
C8_FractionExact ==
    (Done("ParseDuration") /\ arg.class = "frac") =>
        LET t == FracTok(arg)
        IN  dres = [d |-> I64(FALSE, Add(Mul(DecVal(t.i), unitMap[t.u]), FracExact(t))),
                    err |-> "nil"]

\* C8 amended: a token I.F<unit> with k fraction digits parses without
\* error; it gives exactly I*scale + F*scale/10^k when k <= 18 and 10^k
\* divides scale; otherwise the fraction is a float64 product truncated to
\* an integer, within 1 ns of F*scale/10^k truncated, and never less than
\* I*scale.
C8_FractionWithin1 ==
    (Done("ParseDuration") /\ arg.class = "frac") =>
        LET t     == FracTok(arg)
            whole == Mul(DecVal(t.i), unitMap[t.u])
            exact == Add(whole, FracExact(t))
        IN  /\ dres.err = "nil" /\ ~dres.d.neg
            /\ Ge(dres.d.mag, whole)
            /\ Within1(dres.d.mag, exact)
            /\ (Len(t.f) <= 18 /\ FracDivides(t)) => dres.d.mag = exact

\* C8: "1.5h" has been parsed and gave 5,400,000,000,000 ns.
C8_Witness ==
    /\ Done("ParseDuration") /\ arg.class = "frac"
    /\ ParseText(arg) = <<"1", ".", "5", "h">>
    /\ dres = [d |-> I64(FALSE, <<0, 0, 0, 400, 5>>), err |-> "nil"]

\* C9: FormatSimplifiedDuration renders d in whole units of the largest of
\* 24h, 1h, 1m, 1s, 1ms, 1µs that d strictly exceeds ("<days>d <hours>h"
\* above 24h), truncating; a d equal to a threshold goes to the next
\* smaller unit, and a d <= 1µs, zero and negatives included, is "<d>ns".
C9_Simplified ==
    Done("FormatSimplifiedDuration") =>
        IF arg.neg THEN IsNegativeNs(text, CompMag(arg.c))
        ELSE text = Simplified(arg.c)

\* C9: exactly one hour has been rendered as "60m".
C9_Witness ==
    /\ Done("FormatSimplifiedDuration")
    /\ arg = [neg |-> FALSE, c |-> <<0, 1, 0, 0, 0, 0, 0>>]
    /\ text = <<"6", "0", "m">>

\* C10: FormatDuration(d) is never the empty string, for negative d and
\* negative multiples of a day or a millisecond too, so MarshalJSON never
\* writes the empty text.
C10_NeverEmpty ==
    /\ Done("FormatDuration") => text # << >>
    /\ pc = "marshalled" => text # <<"\"", "\"">>

====
